---- MODULE Spec2Model ----
(***************************************************************************)
(* A model of the EDVAN DBF Commander data engine: the paginated data tab  *)
(* (BaseDataTab / DBFDataTab), its find & replace dialog, the save path    *)
(* and the encoding converter (utils/encoding.py).                         *)
(*                                                                         *)
(* Text is a sequence of one-character strings (<<"A","b">> is "Ab").      *)
(* A table (pandas DataFrame) is a sequence of rows; a row is              *)
(*   [id |-> ..., lbl |-> ..., c |-> <<cell, ...>>]                        *)
(* where lbl is the pandas index label of the row, c holds one cell per    *)
(* column of Columns, and id is a history value naming the record the row  *)
(* came from (it is never read by an operation, only by the properties).   *)
(***************************************************************************)
EXTENDS Integers, Sequences, FiniteSets, TLC

\* ------------------------------------------------------------------ bounds

\* Largest number of rows of the base table.
MaxRows == 4

\* Largest number of handler calls of one session that act on the tab
\* (paging and refused calls aside).
MaxOps == 3

\* Rows shown per page. The program fixes it at 100 (base_data_tab.py:34);
\* the model scales it down so that several pages exist within MaxRows.
PageSize == 3

rows_per_page == PageSize

\* ------------------------------------------------------------ text helpers

Min(a, b) == IF a < b THEN a ELSE b

Max(a, b) == IF a > b THEN a ELSE b

\* The column names of the loaded file (field names of the DBF header).
Columns == <<"NAME", "CITY">>

ColIdx == 1..Len(Columns)

\* float('nan'), the value pandas stores in a cell that was never set.
NaN == <<"NaN">>

\* Python None, what a NULL of the query backend comes back as.
None == <<"None">>

\* The empty text ''.
Empty == <<>>

\* str(value) as update_data_display renders it.
Str(v) == IF v = NaN THEN <<"n", "a", "n">>
          ELSE IF v = None THEN <<"N", "o", "n", "e">>
          ELSE v

\* pandas.isna(value)
IsNA(v) == v = NaN \/ v = None

\* ------------------------------------------------------------------- state

VARIABLES
    read_only,      \* BaseDataTab.read_only
    df,             \* BaseDataTab.df: the base table
    filtered_df,    \* BaseDataTab.filtered_df: [some |-> FALSE] is None
    current_page,   \* BaseDataTab.current_page
    modified,       \* BaseDataTab.modified
    sort_column,    \* BaseDataTab.sort_column: 0 is None, else a column index
    sort_ascending, \* BaseDataTab.sort_ascending
    data_tree,      \* the rows the Treeview holds, top to bottom
    dialog_open,    \* a FindReplaceDialog is open (it is modal: grab_set)
    matches,        \* FindReplaceDialog.matches
    current_match_index, \* FindReplaceDialog.current_match_index
    last_search,    \* FindReplaceDialog._last_search (Unset: no attribute)
    searched,       \* history: the entry and check boxes of the _search_data
                    \* call that filled matches, and whether every
                    \* replace_current since then found them as they were
    disk,           \* the records of the file at BaseDataTab.file_path
    backups,        \* the contents of the backup files made so far
    is_dbf,         \* the converter's file has the extension .dbf
    file_bytes,     \* the bytes of the file handed to the encoding converter
    bak_files,      \* the contents of the backup files the converter made
    conv_log,       \* history: the converter calls so far, oldest first
    limit,          \* the bound on ops of the specification (never changes)
    ops,            \* the number of handler calls that acted, paging aside
    last            \* history: the handler that ran last, and whether it acted

tabvars == <<read_only, df, filtered_df, current_page, modified, sort_column,
             sort_ascending, data_tree>>

dlgvars == <<dialog_open, matches, current_match_index, last_search, searched>>

filevars == <<disk, backups>>

convvars == <<is_dbf, file_bytes, bak_files, conv_log>>

vars == <<tabvars, dlgvars, filevars, convvars, limit, ops, last>>

\* No _search_data call was made by the dialog.
NoSearch == [text |-> <<>>, cs |-> FALSE, pm |-> FALSE, kept |-> TRUE]

\* hasattr(self, '_last_search') is false.
Unset == <<"<unset>">>

\* A handler of the main window: the dialog calls grab_set(), so while it
\* is open no event reaches the tab, and the handler leaves the dialog alone.
Modeless == ~dialog_open /\ UNCHANGED dlgvars

\* A handler that does not touch the file system.
NoIO == UNCHANGED <<disk, backups>>

\* A handler that does not run the encoding converter.
NoConv == UNCHANGED convvars

NoFilter == [some |-> FALSE, rows |-> <<>>]

\* display_df = self.filtered_df if self.filtered_df is not None else self.df
DisplayOf(f, d) == IF f.some THEN f.rows ELSE d

display_df == DisplayOf(filtered_df, df)

\* ---------------------------------------------------------------- tables

\* reset_index(drop=True) / ignore_index=True: labels become 0..n-1.
ResetIndex(t) == [k \in 1..Len(t) |-> [t[k] EXCEPT !.lbl = k - 1]]

Labels(t) == {t[k].lbl : k \in 1..Len(t)}

Ids(t) == {t[k].id : k \in 1..Len(t)}

\* The rows of t at the positions in P, in table order.
RECURSIVE PickFrom(_, _, _)
PickFrom(t, P, k) ==
    IF k > Len(t) THEN <<>>
    ELSE (IF k \in P THEN <<t[k]>> ELSE <<>>) \o PickFrom(t, P, k + 1)

Pick(t, P) == PickFrom(t, P, 1)

\* A page count that rounds down instead of up.
TotalPagesFloor(total) == Max(1, total \div rows_per_page)

\* total_pages = max(1, (total + self.rows_per_page - 1) // self.rows_per_page)
TotalPages(total) == Max(1, (total + rows_per_page - 1) \div rows_per_page)

\* start_idx, end_idx of update_data_display (0-based, end exclusive).
StartIdx(page) == page * rows_per_page

EndIdx(page, n) == Min(StartIdx(page) + rows_per_page, n)

TreeItem(row) == [id |-> row.id, values |-> [j \in ColIdx |-> Str(row.c[j])]]

\* The items update_data_display inserts for page `page` of table t:
\* nothing for an empty table (the early return), else rows
\* range(start_idx, end_idx) by position (iloc).
PageItems(t, page) ==
    IF Len(t) = 0 \/ EndIdx(page, Len(t)) <= StartIdx(page) THEN <<>>
    ELSE [k \in 1..(EndIdx(page, Len(t)) - StartIdx(page)) |->
              TreeItem(t[StartIdx(page) + k])]

\* update_data_display for the state (f, d, page).
Refresh(f, d, page) == PageItems(DisplayOf(f, d), page)

\* An id no row of the session carries (history only).
FreshId(d, f) ==
    CHOOSE i \in 1..(2 * MaxRows + 1) :
        /\ i \notin (Ids(d) \cup Ids(f.rows))
        /\ \A j \in 1..(i - 1) : j \in (Ids(d) \cup Ids(f.rows))

\* df.at[label, column] = value. pandas sets the cell of the row labelled
\* `label`; when no row carries the label it enlarges the frame by a row
\* with that label whose other cells are NaN (DataFrame._set_value falls
\* back to .loc on KeyError).
SetAt(t, label, j, v, newid) ==
    IF label \in Labels(t)
    THEN [k \in 1..Len(t) |->
             IF t[k].lbl = label THEN [t[k] EXCEPT !.c[j] = v] ELSE t[k]]
    ELSE Append(t, [id |-> newid, lbl |-> label,
                    c |-> [i \in ColIdx |-> IF i = j THEN v ELSE NaN]])

\* df.drop(labels): the rows whose label is not in labels. pandas raises
\* KeyError when a label is not found; DropOk is that test.
DropOk(t, labels) == labels \subseteq Labels(t)

Drop(t, labels) == Pick(t, {k \in 1..Len(t) : t[k].lbl \notin labels})

\* pd.concat([df, pd.DataFrame([new_row])], ignore_index=True)
Concat(t, row) == ResetIndex(Append(t, row))

\* ------------------------------------------------------- query backend

\* The texts typed into the SQL entry that the model tries.
QueryTexts == {"", "  ", "SELEC", "SELECT * FROM data",
               "SELECT * FROM data WHERE NAME = 'a'",
               "SELECT * FROM data WHERE 0",
               "SELECT 'a' AS NAME, 'b' AS CITY"}

\* The entry taken as it is, white space included.
StripNothing(q) == q

\* query = self.sql_entry.get().strip()
Strip(q) == IF q = "  " THEN "" ELSE q

\* Whether sqlite accepts the query (pd.read_sql_query raises otherwise).
QueryAccepted(q) == q # "SELEC"

\* A value after the round trip through sqlite: NaN is stored as NULL and
\* read back as None.
ThroughSql(v) == IF IsNA(v) THEN None ELSE v

\* The result set of q over table t (to_sql(index=False) drops the labels,
\* the result frame has a fresh RangeIndex).
\* A query that selects constants reads no table: its one row is no row
\* of t (id 0).
QueryResult(q, t) ==
    LET keep == CASE q = "SELECT * FROM data" -> 1..Len(t)
                  [] q = "SELECT * FROM data WHERE NAME = 'a'" ->
                         {k \in 1..Len(t) : t[k].c[1] = <<"a">>}
                  [] OTHER -> {}
        sel == Pick(t, keep)
    IN IF q = "SELECT 'a' AS NAME, 'b' AS CITY"
       THEN << [id |-> 0, lbl |-> 0, c |-> << <<"a">>, <<"b">> >>] >>
       ELSE ResetIndex([k \in 1..Len(sel) |->
                [sel[k] EXCEPT !.c = [j \in ColIdx |-> ThroughSql(sel[k].c[j])]]])

\* --------------------------------------------------------------- sorting

\* ord(ch) for the characters the model uses.
CharCode(ch) == CASE ch = "A" -> 65 [] ch = "N" -> 78 [] ch = "a" -> 97
                  [] ch = "b" -> 98 [] ch = "c" -> 99 [] ch = "e" -> 101
                  [] ch = "n" -> 110 [] ch = "o" -> 111 [] OTHER -> 0

\* Python's s < t on str.
RECURSIVE StrLess(_, _)
StrLess(s, t) ==
    IF t = <<>> THEN FALSE
    ELSE IF s = <<>> THEN TRUE
    ELSE IF CharCode(s[1]) # CharCode(t[1]) THEN CharCode(s[1]) < CharCode(t[1])
    ELSE StrLess(Tail(s), Tail(t))

\* x may precede y in sort_values(by=col, ascending=asc): missing values go
\* last whatever the direction (na_position='last'), the others by value.
MayPrecede(x, y, asc) ==
    IF IsNA(y) THEN TRUE
    ELSE IF IsNA(x) THEN FALSE
    ELSE IF asc THEN ~StrLess(y, x) ELSE ~StrLess(x, y)

\* The outcomes of t.sort_values(by=col, ascending=asc).reset_index(drop=True):
\* every ordering of the rows of t that is sorted on the column (rows whose
\* keys tie may come out in any order).
SortValues(t, j, asc) ==
    {ResetIndex([k \in 1..Len(t) |-> t[p[k]]]) :
        p \in {q \in Permutations(1..Len(t)) :
                 \A a, b \in 1..Len(t) :
                     a < b => MayPrecede(t[q[a]].c[j], t[q[b]].c[j], asc)}}

\* ----------------------------------------------------------------- Init

\* ------------------------------------------------------ encoding converter

\* Bytes are the integers 0..255, characters are Unicode code points; -1
\* stands for a byte that does not decode, or a character that does not encode.

\* os.path.exists(file_path) is false.
Missing == <<-1>>

\* Largest number of bytes that follow the 32 header bytes of a sample
\* file (the length of a sample file that is not a DBF).
MaxData == 2

\* Largest number of converter calls of one session.
MaxConv == 2

\* The least length of a DBF file that _convert_dbf_encoding accepts.
DbfMinSize == 32

\* bytes([b]).decode('cp1252') for b = 0..255 (position b + 1); the
\* codec leaves 0x81, 0x8D, 0x8F, 0x90 and 0x9D undefined.
CP1252Table ==
<<
    0, 1, 2, 3, 4, 5, 6, 7, 8, 9, 10, 11,
    12, 13, 14, 15, 16, 17, 18, 19, 20, 21, 22, 23,
    24, 25, 26, 27, 28, 29, 30, 31, 32, 33, 34, 35,
    36, 37, 38, 39, 40, 41, 42, 43, 44, 45, 46, 47,
    48, 49, 50, 51, 52, 53, 54, 55, 56, 57, 58, 59,
    60, 61, 62, 63, 64, 65, 66, 67, 68, 69, 70, 71,
    72, 73, 74, 75, 76, 77, 78, 79, 80, 81, 82, 83,
    84, 85, 86, 87, 88, 89, 90, 91, 92, 93, 94, 95,
    96, 97, 98, 99, 100, 101, 102, 103, 104, 105, 106, 107,
    108, 109, 110, 111, 112, 113, 114, 115, 116, 117, 118, 119,
    120, 121, 122, 123, 124, 125, 126, 127, 8364, -1, 8218, 402,
    8222, 8230, 8224, 8225, 710, 8240, 352, 8249, 338, -1, 381, -1,
    -1, 8216, 8217, 8220, 8221, 8226, 8211, 8212, 732, 8482, 353, 8250,
    339, -1, 382, 376, 160, 161, 162, 163, 164, 165, 166, 167,
    168, 169, 170, 171, 172, 173, 174, 175, 176, 177, 178, 179,
    180, 181, 182, 183, 184, 185, 186, 187, 188, 189, 190, 191,
    192, 193, 194, 195, 196, 197, 198, 199, 200, 201, 202, 203,
    204, 205, 206, 207, 208, 209, 210, 211, 212, 213, 214, 215,
    216, 217, 218, 219, 220, 221, 222, 223, 224, 225, 226, 227,
    228, 229, 230, 231, 232, 233, 234, 235, 236, 237, 238, 239,
    240, 241, 242, 243, 244, 245, 246, 247, 248, 249, 250, 251,
    252, 253, 254, 255 >>

\* bytes([b]).decode('cp437') for b = 0..255 (position b + 1).
CP437Table ==
<<
    0, 1, 2, 3, 4, 5, 6, 7, 8, 9, 10, 11,
    12, 13, 14, 15, 16, 17, 18, 19, 20, 21, 22, 23,
    24, 25, 26, 27, 28, 29, 30, 31, 32, 33, 34, 35,
    36, 37, 38, 39, 40, 41, 42, 43, 44, 45, 46, 47,
    48, 49, 50, 51, 52, 53, 54, 55, 56, 57, 58, 59,
    60, 61, 62, 63, 64, 65, 66, 67, 68, 69, 70, 71,
    72, 73, 74, 75, 76, 77, 78, 79, 80, 81, 82, 83,
    84, 85, 86, 87, 88, 89, 90, 91, 92, 93, 94, 95,
    96, 97, 98, 99, 100, 101, 102, 103, 104, 105, 106, 107,
    108, 109, 110, 111, 112, 113, 114, 115, 116, 117, 118, 119,
    120, 121, 122, 123, 124, 125, 126, 127, 199, 252, 233, 226,
    228, 224, 229, 231, 234, 235, 232, 239, 238, 236, 196, 197,
    201, 230, 198, 244, 246, 242, 251, 249, 255, 214, 220, 162,
    163, 165, 8359, 402, 225, 237, 243, 250, 241, 209, 170, 186,
    191, 8976, 172, 189, 188, 161, 171, 187, 9617, 9618, 9619, 9474,
    9508, 9569, 9570, 9558, 9557, 9571, 9553, 9559, 9565, 9564, 9563, 9488,
    9492, 9524, 9516, 9500, 9472, 9532, 9566, 9567, 9562, 9556, 9577, 9574,
    9568, 9552, 9580, 9575, 9576, 9572, 9573, 9561, 9560, 9554, 9555, 9579,
    9578, 9496, 9484, 9608, 9604, 9612, 9616, 9600, 945, 223, 915, 960,
    931, 963, 181, 964, 934, 920, 937, 948, 8734, 966, 949, 8745,
    8801, 177, 8805, 8804, 8992, 8993, 247, 8776, 176, 8729, 183, 8730,
    8319, 178, 9632, 160 >>

\* The decoding table of a single-byte codec.
CharMap(encoding) == IF encoding = "cp1252" THEN CP1252Table ELSE CP437Table

\* The number of continuation bytes the UTF-8 lead byte b0 asks for; -1
\* for a byte that cannot start a character.
Utf8Need(b0) ==
    IF b0 < 128 THEN 0
    ELSE IF b0 \in 194..223 THEN 1
    ELSE IF b0 \in 224..239 THEN 2
    ELSE IF b0 \in 240..244 THEN 3
    ELSE -1

\* Whether b1 may follow lead byte b0 (no overlong form, no surrogate,
\* nothing past U+10FFFF).
Utf8SecondOk(b0, b1) ==
    IF b0 = 224 THEN b1 \in 160..191
    ELSE IF b0 = 237 THEN b1 \in 128..159
    ELSE IF b0 = 240 THEN b1 \in 144..191
    ELSE IF b0 = 244 THEN b1 \in 128..143
    ELSE b1 \in 128..191

\* How many continuation bytes after the lead byte at position i are as
\* they should be, g of them being known to be.
RECURSIVE Utf8Good(_, _, _)
Utf8Good(bs, i, g) ==
    IF /\ g < Utf8Need(bs[i])
       /\ i + g + 1 <= Len(bs)
       /\ IF g = 0 THEN Utf8SecondOk(bs[i], bs[i + 1]) ELSE bs[i + g + 1] \in 128..191
    THEN Utf8Good(bs, i, g + 1)
    ELSE g

\* The code point of the well-formed character of n + 1 bytes at position i.
Utf8CodePoint(bs, i, n) ==
    IF n = 0 THEN bs[i]
    ELSE IF n = 1 THEN (bs[i] % 32) * 64 + (bs[i + 1] % 64)
    ELSE IF n = 2 THEN (bs[i] % 16) * 4096 + (bs[i + 1] % 64) * 64 + (bs[i + 2] % 64)
    ELSE (bs[i] % 8) * 262144 + (bs[i + 1] % 64) * 4096
         + (bs[i + 2] % 64) * 64 + (bs[i + 3] % 64)

\* The UTF-8 decoder from position i on: one code point per well-formed
\* character, one -1 per ill-formed run (the bad lead byte and the good
\* continuation bytes behind it).
RECURSIVE Utf8DecodeFrom(_, _)
Utf8DecodeFrom(bs, i) ==
    IF i > Len(bs) THEN <<>>
    ELSE LET n == Utf8Need(bs[i])
             g == Utf8Good(bs, i, 0)
         IN  IF n = -1 THEN <<-1>> \o Utf8DecodeFrom(bs, i + 1)
             ELSE IF g = n THEN <<Utf8CodePoint(bs, i, n)>> \o Utf8DecodeFrom(bs, i + n + 1)
             ELSE <<-1>> \o Utf8DecodeFrom(bs, i + g + 1)

\* What the decoder of encoding makes of bs, -1 where it finds an error.
Decoded(bs, encoding) ==
    IF encoding = "utf-8" THEN Utf8DecodeFrom(bs, 1)
    ELSE [i \in 1..Len(bs) |-> CharMap(encoding)[bs[i] + 1]]

\* bs.decode(encoding) raises UnicodeDecodeError.
DecodeError(bs, encoding) ==
    LET d == Decoded(bs, encoding)
    IN  \E i \in 1..Len(d) : d[i] = -1

\* bs.decode(encoding, errors='replace'): U+FFFD for every error.
DecodeReplace(bs, encoding) ==
    LET d == Decoded(bs, encoding)
    IN  [i \in 1..Len(d) |-> IF d[i] = -1 THEN 65533 ELSE d[i]]

\* The UTF-8 form of code point c; <<-1>> for a surrogate.
Utf8Encode(c) ==
    IF c < 128 THEN <<c>>
    ELSE IF c < 2048 THEN <<192 + (c \div 64), 128 + (c % 64)>>
    ELSE IF c \in 55296..57343 THEN <<-1>>
    ELSE IF c < 65536 THEN <<224 + (c \div 4096), 128 + ((c \div 64) % 64), 128 + (c % 64)>>
    ELSE <<240 + (c \div 262144), 128 + ((c \div 4096) % 64),
           128 + ((c \div 64) % 64), 128 + (c % 64)>>

\* The bytes of character c in encoding; <<-1>> if the encoding has none.
\* (Both tables map the bytes 0..127 to the code points 0..127.)
EncodeChar(c, encoding) ==
    IF encoding = "utf-8" THEN Utf8Encode(c)
    ELSE IF c \in 0..127 THEN <<c>>
    ELSE LET bytes == {b \in 128..255 : CharMap(encoding)[b + 1] = c}
         IN  IF bytes = {} THEN <<-1>> ELSE <<CHOOSE b \in bytes : TRUE>>

\* chars.encode(encoding) raises UnicodeEncodeError.
EncodeError(chars, encoding) ==
    \E i \in 1..Len(chars) : EncodeChar(chars[i], encoding) = <<-1>>

\* chars.encode(encoding, errors='replace'): '?' for a character the
\* encoding has no bytes for.
RECURSIVE EncodeReplace(_, _)
EncodeReplace(chars, encoding) ==
    IF chars = <<>> THEN <<>>
    ELSE (IF EncodeChar(Head(chars), encoding) = <<-1>> THEN <<63>>
          ELSE EncodeChar(Head(chars), encoding))
         \o EncodeReplace(Tail(chars), encoding)

\* A conversion without the fallback: a byte that does not decode makes
\* the call fail.
ConvertTextStrict(data, from_encoding, to_encoding) ==
    LET d == Decoded(data, from_encoding)
    IN  IF (\E i \in 1..Len(d) : d[i] = -1) \/ EncodeError(d, to_encoding)
        THEN [raised |-> TRUE, bytes |-> <<>>]
        ELSE [raised |-> FALSE, bytes |-> EncodeReplace(d, to_encoding)]

\* The try/except around decode and encode (lines 113-119, 153-159) with
\* errors='replace' on every path.
ConvertTextLossy(data, from_encoding, to_encoding) ==
    [raised |-> FALSE,
     bytes |-> EncodeReplace(DecodeReplace(data, from_encoding), to_encoding)]

\* The try/except around decode and encode (lines 113-119, 153-159): a
\* strict attempt first; a UnicodeDecodeError turns to errors='replace' on
\* both sides; a UnicodeEncodeError of the strict attempt is not caught
\* here and goes up to the caller. (With every character encodable the
\* strict encoder and the replacing one give the same bytes.)
ConvertText(data, from_encoding, to_encoding) ==
    LET d == Decoded(data, from_encoding)
        decode_error == \E i \in 1..Len(d) : d[i] = -1
    IN  IF decode_error
        THEN [raised |-> FALSE,
              bytes |-> EncodeReplace(DecodeReplace(data, from_encoding), to_encoding)]
        ELSE IF EncodeError(d, to_encoding)
        THEN [raised |-> TRUE, bytes |-> <<>>]
        ELSE [raised |-> FALSE, bytes |-> EncodeReplace(d, to_encoding)]

\* A header of the least size, whatever the length field says.
header_length_fixed(content) == DbfMinSize

\* int.from_bytes(content[8:10], 'little')
header_length(content) == content[9] + 256 * content[10]

\* _convert_dbf_encoding: ValueError for a file shorter than a header;
\* else the first header_length bytes as they are (the whole file if it is
\* shorter than that) and the rest converted.
_convert_dbf_encoding(content, from_encoding, to_encoding) ==
    IF Len(content) < DbfMinSize THEN [raised |-> TRUE, bytes |-> <<>>]
    ELSE LET cut == Min(header_length(content), Len(content))
             header == SubSeq(content, 1, cut)
             data == SubSeq(content, cut + 1, Len(content))
             converted == ConvertText(data, from_encoding, to_encoding)
         IN  [raised |-> converted.raised, bytes |-> header \o converted.bytes]

\* A backup step that reports nothing to its caller when the copy fails.
_create_backup_quiet(baks, content, copy_ok) ==
    [raised |-> FALSE, baks |-> IF copy_ok THEN baks \cup {content} ELSE baks]

\* _create_backup: shutil.copy2 to a time-stamped name beside the file; an
\* exception of the copy is not caught here.
_create_backup(baks, content, copy_ok) ==
    [raised |-> ~copy_ok, baks |-> IF copy_ok THEN baks \cup {content} ELSE baks]

\* A converter that opens the file for writing before it converts: a call
\* that fails leaves the file empty.
WrittenFirst(ret, bytes, old) == IF ret THEN bytes ELSE <<>>

\* The file after the call: open(file_path, 'wb') and f.write are the last
\* statements of the try block, reached only when nothing was raised.
WrittenBack(ret, bytes, old) == IF ret THEN bytes ELSE old

\* _convert_encoding on the file, the copy of the backup succeeding or not.
\* Any exception on the way (file missing, backup, ValueError, encode error)
\* is caught at the end and makes the call return False; the file is
\* written only after everything else is done.
_convert_encoding(from_encoding, to_encoding, create_backup, copy_ok) ==
    /\ Len(conv_log) < MaxConv
    /\ create_backup \/ copy_ok
    /\ LET exists == file_bytes # Missing
           backup == IF exists /\ create_backup
                     THEN _create_backup(bak_files, file_bytes, copy_ok)
                     ELSE [raised |-> FALSE, baks |-> bak_files]
           converted == IF is_dbf
                        THEN _convert_dbf_encoding(file_bytes, from_encoding, to_encoding)
                        ELSE ConvertText(file_bytes, from_encoding, to_encoding)
           ret == exists /\ ~backup.raised /\ ~converted.raised
           written == WrittenBack(ret, converted.bytes, file_bytes)
       IN  /\ bak_files' = backup.baks
           /\ file_bytes' = written
           /\ conv_log' = Append(conv_log,
                  [from_encoding |-> from_encoding, to_encoding |-> to_encoding,
                   create_backup |-> create_backup, copy_ok |-> copy_ok,
                   before |-> file_bytes, after |-> written, ret |-> ret])
           /\ last' = [op |-> "_convert_encoding", done |-> ret]
    /\ UNCHANGED <<tabvars, dlgvars, filevars, is_dbf, limit, ops>>

convert_ansi_to_oem(create_backup, copy_ok) ==
    _convert_encoding("cp1252", "cp437", create_backup, copy_ok)

convert_oem_to_ansi(create_backup, copy_ok) ==
    _convert_encoding("cp437", "cp1252", create_backup, copy_ok)

convert_ansi_to_utf8(create_backup, copy_ok) ==
    _convert_encoding("cp1252", "utf-8", create_backup, copy_ok)

convert_utf8_to_ansi(create_backup, copy_ok) ==
    _convert_encoding("utf-8", "cp1252", create_backup, copy_ok)

\* The bytes sample files are made of: 'A'; 0x80, the euro sign of cp1252
\* (cp437 has none); 0x81, undefined in cp1252; 0xC3 0xA9, the UTF-8
\* form of e-acute; 0xE9, e-acute in cp1252.
SampleBytes == {65, 128, 129, 169, 195, 233}

SampleData == UNION {[1..n -> SampleBytes] : n \in 0..MaxData}

\* The values of the header length field of the sample DBF files.
SampleHeaderLengths == {0, DbfMinSize, DbfMinSize + 1, DbfMinSize + 8}

\* A DBF header without field descriptors: the version byte, the header
\* length at offset 8 and a language driver byte at offset 29.
SampleHeader(h) ==
    [i \in 1..DbfMinSize |->
        IF i = 1 THEN 3
        ELSE IF i = 9 THEN h % 256
        ELSE IF i = 10 THEN h \div 256
        ELSE IF i = 30 THEN 233
        ELSE 0]

\* The files a session of the converter starts on.
SampleFiles(dbf) ==
    IF dbf
    THEN {Missing, <<3, 233>>}
         \cup {SampleHeader(h) \o d : h \in SampleHeaderLengths, d \in SampleData}
    ELSE {Missing} \cup SampleData


\* The cell contents of record k of the files the model opens.
FileCells(k) == IF k % 2 = 1 THEN << <<"a">>, <<"b">> >>
                ELSE << <<"A", "b">>, <<"a">> >>

\* load_data: every record of the file becomes a row, labelled 0..n-1.
LoadTable(n) == [k \in 1..n |-> [id |-> k, lbl |-> k - 1, c |-> FileCells(k)]]

Did(o) == [op |-> o, done |-> TRUE]

Refused(o) == [op |-> o, done |-> FALSE]

\* The tab after construction on a file of n records.
InitTab(n) ==
    /\ df = LoadTable(n)
    /\ filtered_df = NoFilter
    /\ current_page = 0
    /\ modified = FALSE
    /\ sort_column = 0
    /\ sort_ascending = TRUE
    /\ data_tree = Refresh(NoFilter, df, 0)
    /\ disk = [k \in 1..n |-> FileCells(k)]
    /\ backups = {}
    /\ dialog_open = FALSE
    /\ matches = <<>>
    /\ current_match_index = -1
    /\ last_search = Unset
    /\ searched = NoSearch
    /\ ops = 0
    /\ last = Did("load_data")

\* No converter session: the file of the tab, as it was opened.
ConvIdle ==
    /\ is_dbf = TRUE
    /\ file_bytes = SampleHeader(DbfMinSize)
    /\ bak_files = {}
    /\ conv_log = <<>>

Init ==
    /\ read_only \in BOOLEAN
    /\ \E n \in 0..MaxRows : InitTab(n)
    /\ ConvIdle
    /\ limit = MaxOps

\* One more handler call of the session.
Count == ops < limit /\ ops' = ops + 1

\* ------------------------------------------------------------- paging

first_page ==
    /\ current_page' = 0
    /\ data_tree' = Refresh(filtered_df, df, 0)
    /\ last' = Did("first_page")
    /\ UNCHANGED <<read_only, limit, df, filtered_df, modified, sort_column, sort_ascending, ops>>
    /\ Modeless
    /\ NoIO
    /\ NoConv

prev_page ==
    /\ IF current_page > 0
       THEN /\ current_page' = current_page - 1
            /\ data_tree' = Refresh(filtered_df, df, current_page - 1)
            /\ last' = Did("prev_page")
       ELSE /\ UNCHANGED <<current_page, data_tree>>
            /\ last' = Refused("prev_page")
    /\ UNCHANGED <<read_only, limit, df, filtered_df, modified, sort_column, sort_ascending, ops>>
    /\ Modeless
    /\ NoIO
    /\ NoConv

next_page ==
    /\ IF current_page < TotalPages(Len(display_df)) - 1
       THEN /\ current_page' = current_page + 1
            /\ data_tree' = Refresh(filtered_df, df, current_page + 1)
            /\ last' = Did("next_page")
       ELSE /\ UNCHANGED <<current_page, data_tree>>
            /\ last' = Refused("next_page")
    /\ UNCHANGED <<read_only, limit, df, filtered_df, modified, sort_column, sort_ascending, ops>>
    /\ Modeless
    /\ NoIO
    /\ NoConv

\* last_page on the state (f, d): the page it moves to.
LastPageOf(f, d) == TotalPages(Len(DisplayOf(f, d))) - 1

last_page ==
    /\ current_page' = LastPageOf(filtered_df, df)
    /\ data_tree' = Refresh(filtered_df, df, LastPageOf(filtered_df, df))
    /\ last' = Did("last_page")
    /\ UNCHANGED <<read_only, limit, df, filtered_df, modified, sort_column, sort_ascending, ops>>
    /\ Modeless
    /\ NoIO
    /\ NoConv

\* ------------------------------------------------------ query and sort

\* A query that leaves the page where it was.
PageKeptByQuery(page) == page

\* self.current_page = 0 of execute_sql, whatever the page was.
PageAfterQuery(page) == 0

\* A query that reads what the tab shows: the view, when there is one.
data_of_view(f, d) == DisplayOf(f, d)

\* The table stored under the name 'data' in the in-memory database:
\* self.df.to_sql('data', conn, ...), whatever filtered_df holds.
data(f, d) == d

\* execute_sql with q in the SQL entry: a blank query and a query the
\* backend rejects change nothing; otherwise the result becomes the view
\* and the page is 0.
\* last.closed tells whether the call ran conn.close() on every connection
\* it opened: a blank query opens none; conn.close() follows
\* pd.read_sql_query inside the try block, so the except branch is reached
\* without it and the handler returns leaving the connection to the
\* garbage collector.
execute_sql(q) ==
    /\ IF Strip(q) # "" /\ QueryAccepted(Strip(q))
       THEN /\ Count
            /\ filtered_df' = [some |-> TRUE,
                                rows |-> QueryResult(Strip(q), data(filtered_df, df))]
            /\ current_page' = PageAfterQuery(current_page)
            /\ data_tree' = Refresh(filtered_df', df, current_page')
            /\ last' = [op |-> "execute_sql", done |-> TRUE, page |-> current_page,
                        shown |-> Len(display_df), msg |-> "none",
                        closed |-> TRUE]
       ELSE /\ UNCHANGED <<filtered_df, current_page, data_tree, ops>>
            /\ last' = [op |-> "execute_sql", done |-> FALSE, page |-> current_page,
                        shown |-> Len(display_df),
                        msg |-> IF Strip(q) = "" THEN "showinfo" ELSE "showerror",
                        closed |-> Strip(q) = ""]
    /\ UNCHANGED <<read_only, limit, df, modified, sort_column, sort_ascending>>
    /\ Modeless
    /\ NoIO
    /\ NoConv

\* A clear_filter that shows a copy of the table as the view.
ViewCopyAfterClear(d) == [some |-> TRUE, rows |-> d]

\* self.filtered_df = None of clear_filter.
ViewAfterClear(d) == NoFilter

clear_filter ==
    /\ Count
    /\ filtered_df' = ViewAfterClear(df)
    /\ current_page' = 0
    /\ data_tree' = Refresh(filtered_df', df, 0)
    /\ last' = [op |-> "clear_filter", done |-> TRUE, shown |-> Len(display_df)]
    /\ UNCHANGED <<read_only, limit, df, modified, sort_column, sort_ascending>>
    /\ Modeless
    /\ NoIO
    /\ NoConv

\* A click that flips the direction whatever column it is on.
AscendingFlipped(col, asc, j) == ~asc

\* self.sort_ascending after a click on column j: flipped when j is the
\* sort column, True otherwise (the sort column then becomes j).
AscendingAfterClick(col, asc, j) == IF col = j THEN ~asc ELSE TRUE

\* A sort that always goes to the base table.
SortsBaseTable(f) == FALSE

\* if self.filtered_df is not None: the view is sorted, else the table.
SortsView(f) == f.some

\* on_header_click on the heading of column j (col_index = j - 1).
on_header_click(j) ==
    /\ Count
    /\ sort_column' = j
    /\ sort_ascending' = AscendingAfterClick(sort_column, sort_ascending, j)
    /\ IF SortsView(filtered_df)
       THEN /\ \E s \in SortValues(filtered_df.rows, j, sort_ascending') :
                   filtered_df' = [some |-> TRUE, rows |-> s]
            /\ UNCHANGED df
       ELSE /\ \E s \in SortValues(df, j, sort_ascending') : df' = s
            /\ UNCHANGED filtered_df
    /\ data_tree' = Refresh(filtered_df', df', current_page)
    /\ last' = [op |-> "on_header_click", done |-> TRUE,
                prev_column |-> sort_column, prev_ascending |-> sort_ascending]
    /\ UNCHANGED <<read_only, limit, current_page, modified>>
    /\ Modeless
    /\ NoIO
    /\ NoConv

\* ------------------------------------------------------------- editing

\* The texts typed into the edit-cell dialog that the model tries.
EditValues == { <<"c">> }

\* row_index = self.data_tree.index(item) + (self.current_page * self.rows_per_page)
\* for the k-th item of the tree (k counts from 1, index(item) from 0).
RowIndex(k, page) == (k - 1) + page * rows_per_page

\* edit_cell(item, col_index) on the k-th item of the tree and column j,
\* the dialog answered by new_value. on_double_click lets it run only on
\* an item of the tree and not in a read-only tab.
edit_cell(k, j, new_value) ==
    /\ k \in 1..Len(data_tree)
    /\ IF read_only
       THEN /\ UNCHANGED <<df, modified, data_tree, ops>>
            /\ last' = Refused("edit_cell")
       ELSE /\ Count
            /\ Len(SetAt(df, RowIndex(k, current_page), j, new_value, 0)) <= MaxRows
            /\ df' = SetAt(df, RowIndex(k, current_page), j, new_value,
                           FreshId(df, filtered_df))
            /\ modified' = TRUE
            /\ data_tree' = Refresh(filtered_df, df', current_page)
            /\ last' = Did("edit_cell")
    /\ UNCHANGED <<read_only, limit, filtered_df, current_page, sort_column, sort_ascending>>
    /\ Modeless
    /\ NoIO
    /\ NoConv

\* new_row = {col: '' for col in self.df.columns}
NewRow(newid) == [id |-> newid, lbl |-> 0, c |-> [j \in ColIdx |-> Empty]]

add_record ==
    /\ IF read_only
       THEN /\ UNCHANGED <<df, modified, current_page, data_tree, ops>>
            /\ last' = Refused("add_record")
       ELSE /\ Count
            /\ Len(df) < MaxRows
            /\ df' = Concat(df, NewRow(FreshId(df, filtered_df)))
            /\ modified' = TRUE
            /\ current_page' = LastPageOf(filtered_df, df')
            /\ data_tree' = Refresh(filtered_df, df', current_page')
            /\ last' = Did("add_record")
    /\ UNCHANGED <<read_only, limit, filtered_df, sort_column, sort_ascending>>
    /\ Modeless
    /\ NoIO
    /\ NoConv

\* indices_to_delete for the selected tree items sel (positions from 1).
IndicesToDelete(sel, page) == {RowIndex(k, page) : k \in sel}

\* self.df.drop(indices_to_delete).reset_index(drop=True)
DeleteRows(t, indices) == ResetIndex(Drop(t, indices))

\* delete_selected with the tree selection sel and the answer to the
\* confirmation box. A read-only tab, an empty selection and a declined
\* confirmation return early; a label that is not in df makes drop raise
\* KeyError, which leaves the handler before anything is assigned.
delete_selected(sel, confirm) ==
    /\ sel \subseteq 1..Len(data_tree)
    /\ IF ~read_only /\ sel # {} /\ confirm
          /\ DropOk(df, IndicesToDelete(sel, current_page))
       THEN /\ Count
            /\ df' = DeleteRows(df, IndicesToDelete(sel, current_page))
            /\ modified' = TRUE
            /\ data_tree' = Refresh(filtered_df, df', current_page)
            /\ last' = Did("delete_selected")
       ELSE /\ UNCHANGED <<df, modified, data_tree, ops>>
            /\ last' = Refused("delete_selected")
    /\ UNCHANGED <<read_only, limit, filtered_df, current_page, sort_column, sort_ascending>>
    /\ Modeless
    /\ NoIO
    /\ NoConv

\* ---------------------------------------------------------------- save

\* The value save_changes hands to the record for cell value v:
\* '' if pd.isna(value) or value == '' else value.
SavedValue(v) == IF IsNA(v) \/ v = Empty THEN Empty ELSE v

\* The records the write loop produces for table t (for _, row in
\* self.df.iterrows(), field by position).
SavedRecords(t) == [k \in 1..Len(t) |-> [j \in ColIdx |-> SavedValue(t[k].c[j])]]

\* Where a save can fail: nowhere; while the field specs are read from the
\* file (before the file is touched); or while record k is written, k in
\* 1..len(df), after dbf_lib.Table(...) has re-created the file.
FailPoints(t) == {-1, 0} \cup (1..Len(t))

\* The file save_changes leaves behind when it fails at point fail of
\* writing table t over a file holding old.
DiskAfter(old, t, fail) ==
    IF fail = -1 THEN SavedRecords(t)
    ELSE IF fail = 0 THEN old
    ELSE SubSeq(SavedRecords(t), 1, fail - 1)

\* backup_file(): copies the file beside it; a failure of the copy is
\* caught inside backup_file, reported, and not passed on to the caller.
BackupFile(bs, old, backup_ok) == IF backup_ok THEN bs \cup {old} ELSE bs

\* self.modified after save_changes: cleared at the end of the try block,
\* left as it was when an exception took the handler to the except branch.
ModifiedAfterSave(m, fail) == IF fail = -1 THEN FALSE ELSE m

\* save_changes, the copy of the backup succeeding or not and the write
\* failing at point fail. Whatever backup_file did, the save goes on: the
\* file is re-created and the rows written; an exception on the way is
\* caught, reported, and leaves modified set.
save_changes(backup_ok, fail) ==
    /\ fail \in FailPoints(df)
    /\ IF read_only \/ ~modified
       THEN /\ UNCHANGED <<disk, backups, modified, ops>>
            /\ last' = [op |-> "save_changes", done |-> FALSE, tried |-> FALSE,
                        backup_ok |-> TRUE, fail |-> -1]
       ELSE /\ Count
            /\ backups' = BackupFile(backups, disk, backup_ok)
            /\ disk' = DiskAfter(disk, df, fail)
            /\ modified' = ModifiedAfterSave(modified, fail)
            /\ last' = [op |-> "save_changes", done |-> fail = -1, tried |-> TRUE,
                        backup_ok |-> backup_ok, fail |-> fail]
    /\ UNCHANGED <<read_only, limit, df, filtered_df, current_page, sort_column,
                   sort_ascending, data_tree>>
    /\ Modeless
    /\ NoConv

\* ------------------------------------------------------ find & replace

\* str.lower() for the characters the model uses.
Lower(ch) == CASE ch = "A" -> "a" [] ch = "N" -> "n" [] OTHER -> ch

LowerStr(s) == [i \in 1..Len(s) |-> Lower(s[i])]

\* f in s (str.__contains__).
Contains(s, f) ==
    \E i \in 0..(Len(s) - Len(f)) : SubSeq(s, i + 1, i + Len(f)) = f

\* cell_value = str(row[col_name]) if row[col_name] is not None else ""
CellText(v) == IF v = None THEN <<>> ELSE Str(v)

\* A test that compares for equality whatever the partial-match box says.
CellMatchesExactly(cell_value, find_text, case_sensitive, partial_match) ==
    LET search_text == IF case_sensitive THEN find_text ELSE LowerStr(find_text)
        compare_value == IF case_sensitive THEN cell_value ELSE LowerStr(cell_value)
    IN search_text = compare_value

\* The test of _search_data on one cell text.
CellMatches(cell_value, find_text, case_sensitive, partial_match) ==
    LET search_text == IF case_sensitive THEN find_text ELSE LowerStr(find_text)
        compare_value == IF case_sensitive THEN cell_value ELSE LowerStr(cell_value)
    IN IF partial_match THEN Contains(compare_value, search_text)
       ELSE search_text = compare_value

\* The cells of t from the m-th on (row-major: row (m-1) div NC, column
\* (m-1) mod NC) that match, as (row_idx, col_name, cell_value), row_idx
\* the label iterrows() yields.
RECURSIVE SearchFrom(_, _, _, _, _)
SearchFrom(t, m, find_text, case_sensitive, partial_match) ==
    IF m > Len(t) * Len(Columns) THEN <<>>
    ELSE LET k == ((m - 1) \div Len(Columns)) + 1
             j == ((m - 1) % Len(Columns)) + 1
             cell_value == CellText(t[k].c[j])
         IN (IF CellMatches(cell_value, find_text, case_sensitive, partial_match)
             THEN <<[row |-> t[k].lbl, col |-> j, val |-> cell_value]>>
             ELSE <<>>)
            \o SearchFrom(t, m + 1, find_text, case_sensitive, partial_match)

\* _search_data(find_text) over the active view t.
SearchData(t, find_text, case_sensitive, partial_match) ==
    IF find_text = <<>> THEN <<>>
    ELSE SearchFrom(t, 1, find_text, case_sensitive, partial_match)

\* cell_value.replace(find_text, replace_text) when fold is false,
\* re.sub(re.escape(find_text), replace_text, cell_value, flags=re.IGNORECASE)
\* when it is true: every non-overlapping occurrence, left to right; an
\* empty find_text matches before every character and at the end.
RECURSIVE StrReplace(_, _, _, _)
StrReplace(s, f, r, fold) ==
    IF f = <<>>
    THEN IF s = <<>> THEN r ELSE r \o <<s[1]>> \o StrReplace(Tail(s), f, r, fold)
    ELSE IF Len(s) < Len(f) THEN s
    ELSE IF (IF fold THEN LowerStr(SubSeq(s, 1, Len(f))) = LowerStr(f)
             ELSE SubSeq(s, 1, Len(f)) = f)
         THEN r \o StrReplace(SubSeq(s, Len(f) + 1, Len(s)), f, r, fold)
         ELSE <<s[1]>> \o StrReplace(Tail(s), f, r, fold)

\* new_value of replace_current / replace_all.
NewValue(cell_value, find_text, replace_text, case_sensitive) ==
    StrReplace(cell_value, find_text, replace_text, ~case_sensitive)

\* The texts typed into the Find and the Replace entries that the model tries.
FindTexts == { <<>>, <<"a">>, <<"b">> }

ReplaceTexts == { <<"c">> }

\* sequence.pop(i) for the 0-based index i.
Pop(q, i) == SubSeq(q, 1, i) \o SubSeq(q, i + 2, Len(q))

\* EDVANDBFCommander.open_find_replace: a new dialog on the current tab.
open_find_replace ==
    /\ ~dialog_open
    /\ dialog_open' = TRUE
    /\ matches' = <<>>
    /\ current_match_index' = -1
    /\ last_search' = Unset
    /\ searched' = NoSearch
    /\ last' = Did("open_find_replace")
    /\ UNCHANGED <<tabvars, filevars, convvars, limit, ops>>

\* The Close button (destroy): the dialog and its state are gone.
close_dialog ==
    /\ dialog_open
    /\ dialog_open' = FALSE
    /\ matches' = <<>>
    /\ current_match_index' = -1
    /\ last_search' = Unset
    /\ searched' = NoSearch
    /\ last' = Did("close_dialog")
    /\ UNCHANGED <<tabvars, filevars, convvars, limit, ops>>

\* target_page of _highlight_match
TargetPage(row_idx) == row_idx \div rows_per_page

\* A cursor that stops at the last match.
NextMatchIndexNoWrap(cur, n) == Min(cur + 1, n - 1)

\* self.current_match_index = (self.current_match_index + 1) % len(self.matches)
NextMatchIndex(cur, n) == (cur + 1) % n

\* find_next with the entry and the check boxes as given.
find_next(find_text, case_sensitive, partial_match) ==
    /\ dialog_open
    /\ IF find_text = <<>>
       THEN /\ UNCHANGED <<matches, current_match_index, last_search, searched,
                           current_page, data_tree>>
            /\ last' = Refused("find_next")
       ELSE LET fresh == matches = <<>> \/ last_search = Unset
                             \/ last_search # find_text
                ms == IF fresh
                      THEN SearchData(display_df, find_text, case_sensitive, partial_match)
                      ELSE matches
                cur == IF fresh THEN -1 ELSE current_match_index
            IN /\ matches' = ms
               /\ last_search' = IF fresh THEN find_text ELSE last_search
               /\ searched' = IF fresh
                              THEN [text |-> find_text, cs |-> case_sensitive,
                                    pm |-> partial_match, kept |-> TRUE]
                              ELSE searched
               /\ IF ms = <<>>
                  THEN /\ current_match_index' = cur
                       /\ UNCHANGED <<current_page, data_tree>>
                       /\ last' = Refused("find_next")
                  ELSE /\ current_match_index' = NextMatchIndex(cur, Len(ms))
                       /\ current_page' = TargetPage(ms[current_match_index' + 1].row)
                       /\ data_tree' = IF current_page' # current_page
                                       THEN Refresh(filtered_df, df, current_page')
                                       ELSE data_tree
                       /\ last' = [op |-> "find_next", done |-> TRUE,
                                   fresh |-> fresh, prev |-> current_match_index]
    /\ UNCHANGED <<read_only, df, filtered_df, modified, sort_column, sort_ascending,
                   dialog_open, filevars, convvars, limit, ops>>

\* The early returns of replace_current without the read-only test.
ReplaceCurrentRefusedWritable ==
    \/ matches = <<>>
    \/ current_match_index < 0
    \/ current_match_index >= Len(matches)

\* When replace_current changes nothing: no match list or no cursor
\* ("Please find a match first"), a read-only tab, or a cursor past the end
\* of the list (IndexError, caught).
ReplaceCurrentRefused ==
    \/ matches = <<>>
    \/ current_match_index < 0
    \/ read_only
    \/ current_match_index >= Len(matches)

\* replace_current with the entries and the check box as given. A cursor
\* past the end of the match list makes self.matches[...] raise IndexError
\* inside the try block: the handler reports it and changes nothing.
replace_current(find_text, replace_text, case_sensitive) ==
    /\ dialog_open
    /\ IF ReplaceCurrentRefused
       THEN /\ UNCHANGED <<df, modified, data_tree, matches, current_match_index,
                           searched, ops>>
            /\ last' = Refused("replace_current")
       ELSE LET m == matches[current_match_index + 1]
                new_value == NewValue(m.val, find_text, replace_text, case_sensitive)
            IN /\ Count
               /\ Len(SetAt(df, m.row, m.col, new_value, 0)) <= MaxRows
               /\ df' = SetAt(df, m.row, m.col, new_value, FreshId(df, filtered_df))
               /\ modified' = TRUE
               /\ data_tree' = Refresh(filtered_df, df', current_page)
               /\ matches' = Pop(matches, current_match_index)
               /\ current_match_index' =
                      IF matches' # <<>> THEN current_match_index % Len(matches')
                      ELSE -1
               /\ searched' = [searched EXCEPT !.kept =
                                  /\ @
                                  /\ find_text = searched.text
                                  /\ case_sensitive = searched.cs]
               /\ last' = Did("replace_current")
    /\ UNCHANGED <<read_only, filtered_df, current_page, sort_column, sort_ascending,
                   dialog_open, last_search, filevars, convvars, limit>>

\* The table after df.at[row_idx, col_name] = new_value for the matches
\* ms[i..], in order.
RECURSIVE ReplaceEach(_, _, _, _, _, _, _)
ReplaceEach(t, f, ms, i, find_text, replace_text, case_sensitive) ==
    IF i > Len(ms) THEN t
    ELSE ReplaceEach(SetAt(t, ms[i].row, ms[i].col,
                           NewValue(ms[i].val, find_text, replace_text, case_sensitive),
                           FreshId(t, f)),
                     f, ms, i + 1, find_text, replace_text, case_sensitive)

\* The early returns of replace_all without the read-only test.
ReplaceAllRefusedBlank(find_text) == find_text = <<>>

\* The early returns of replace_all: a blank find text, a read-only tab.
ReplaceAllRefused(find_text) == find_text = <<>> \/ read_only

\* replace_all with the entries and the check boxes as given and the
\* answer to the confirmation box.
replace_all(find_text, replace_text, case_sensitive, partial_match, confirm) ==
    /\ dialog_open
    /\ IF ReplaceAllRefused(find_text)
       THEN /\ UNCHANGED <<df, modified, data_tree, matches, current_match_index,
                           searched, ops>>
            /\ last' = Refused("replace_all")
       ELSE LET ms == SearchData(display_df, find_text, case_sensitive, partial_match)
            IN /\ searched' = [text |-> find_text, cs |-> case_sensitive,
                               pm |-> partial_match, kept |-> TRUE]
               /\ IF ms = <<>> \/ ~confirm
                  THEN /\ matches' = ms
                       /\ UNCHANGED <<df, modified, data_tree, current_match_index, ops>>
                       /\ last' = Refused("replace_all")
                  ELSE /\ Count
                       /\ Len(ReplaceEach(df, filtered_df, ms, 1, find_text, replace_text,
                                          case_sensitive)) <= MaxRows
                       /\ df' = ReplaceEach(df, filtered_df, ms, 1, find_text, replace_text,
                                            case_sensitive)
                       /\ modified' = TRUE
                       /\ matches' = <<>>
                       /\ current_match_index' = -1
                       /\ data_tree' = Refresh(filtered_df, df', current_page)
                       /\ last' = Did("replace_all")
    /\ UNCHANGED <<read_only, filtered_df, current_page, sort_column, sort_ascending,
                   dialog_open, last_search, filevars, convvars, limit>>

Next ==
    \/ first_page
    \/ prev_page
    \/ next_page
    \/ last_page
    \/ \E q \in QueryTexts : execute_sql(q)
    \/ clear_filter
    \/ \E j \in ColIdx : on_header_click(j)
    \/ \E k \in 1..PageSize, j \in ColIdx, v \in EditValues : edit_cell(k, j, v)
    \/ add_record
    \/ \E sel \in SUBSET (1..PageSize), confirm \in BOOLEAN : delete_selected(sel, confirm)

Spec == Init /\ [][Next]_vars

\* Sessions of the find & replace dialog over a table, with or without a
\* query View.
NextFind ==
    \/ \E q \in QueryTexts : execute_sql(q)
    \/ clear_filter
    \/ open_find_replace
    \/ close_dialog
    \/ \E f \in FindTexts, cs \in BOOLEAN, pm \in BOOLEAN : find_next(f, cs, pm)
    \/ \E f \in FindTexts, r \in ReplaceTexts, cs \in BOOLEAN : replace_current(f, r, cs)
    \/ \E f \in FindTexts, r \in ReplaceTexts, cs \in BOOLEAN, pm \in BOOLEAN,
          confirm \in BOOLEAN : replace_all(f, r, cs, pm, confirm)

InitFind ==
    /\ read_only \in BOOLEAN
    /\ InitTab(MaxRows - 2)
    /\ ConvIdle
    /\ limit = MaxOps - 1

SpecFind == InitFind /\ [][NextFind]_vars


\* Sessions that change the table and save it.
NextSave ==
    \/ \E k \in 1..PageSize, j \in ColIdx, v \in EditValues : edit_cell(k, j, v)
    \/ add_record
    \/ \E sel \in SUBSET (1..PageSize), confirm \in BOOLEAN : delete_selected(sel, confirm)
    \/ \E backup_ok \in BOOLEAN, fail \in -1..MaxRows : save_changes(backup_ok, fail)

SpecSave == Init /\ [][NextSave]_vars

\* Sessions of the encoding converter on one file.
InitConv ==
    /\ read_only = FALSE
    /\ InitTab(0)
    /\ limit = MaxOps
    /\ is_dbf \in BOOLEAN
    /\ file_bytes \in SampleFiles(is_dbf)
    /\ bak_files = {}
    /\ conv_log = <<>>

NextConv ==
    \/ \E create_backup \in BOOLEAN, copy_ok \in BOOLEAN :
          convert_ansi_to_oem(create_backup, copy_ok)
    \/ \E create_backup \in BOOLEAN, copy_ok \in BOOLEAN :
          convert_oem_to_ansi(create_backup, copy_ok)
    \/ \E create_backup \in BOOLEAN, copy_ok \in BOOLEAN :
          convert_ansi_to_utf8(create_backup, copy_ok)
    \/ \E create_backup \in BOOLEAN, copy_ok \in BOOLEAN :
          convert_utf8_to_ansi(create_backup, copy_ok)

SpecConv == InitConv /\ [][NextConv]_vars

\* Sessions on a tab opened read-only (a DBF opened read-only, or a Stata
\* tab, which DTADataTab.__init__ always makes read-only): every handler
\* of the tab and of the find & replace dialog.
NextAll ==
    \/ first_page
    \/ prev_page
    \/ next_page
    \/ last_page
    \/ \E q \in QueryTexts : execute_sql(q)
    \/ clear_filter
    \/ \E j \in ColIdx : on_header_click(j)
    \/ \E k \in 1..PageSize, j \in ColIdx, v \in EditValues : edit_cell(k, j, v)
    \/ add_record
    \/ \E sel \in SUBSET (1..PageSize), confirm \in BOOLEAN : delete_selected(sel, confirm)
    \/ \E backup_ok \in BOOLEAN, fail \in -1..MaxRows : save_changes(backup_ok, fail)
    \/ open_find_replace
    \/ close_dialog
    \/ \E f \in FindTexts, cs \in BOOLEAN, pm \in BOOLEAN : find_next(f, cs, pm)
    \/ \E f \in FindTexts, r \in ReplaceTexts, cs \in BOOLEAN : replace_current(f, r, cs)
    \/ \E f \in FindTexts, r \in ReplaceTexts, cs \in BOOLEAN, pm \in BOOLEAN,
          confirm \in BOOLEAN : replace_all(f, r, cs, pm, confirm)

InitReadOnly ==
    /\ read_only = TRUE
    /\ \E n \in 0..MaxRows : InitTab(n)
    /\ ConvIdle
    /\ limit = MaxOps

SpecReadOnly == InitReadOnly /\ [][NextAll]_vars

\* The table load_data builds from the records d of the file: one row per
\* record, labelled 0..n-1 (pd.DataFrame(records, columns=field_names)).
ReadTable(d) == [k \in 1..Len(d) |-> [id |-> k, lbl |-> k - 1, c |-> d[k]]]

\* convert_ansi_to_oem and its three siblings of the main window, on the
\* current tab: refused on a read-only tab; after the confirmation, when
\* the converter reports success (it has then written its backup copy and
\* transcoded the file, whose cells are ASCII in this model and so keep
\* their bytes), current_tab.load_data() rebuilds df from the file and
\* redraws the page. load_data assigns df and total_records only: the
\* view, the page, the sort state and modified stay as they were.
convert_and_load_data(confirm, converted) ==
    /\ IF ~read_only /\ confirm /\ converted
       THEN /\ Count
            /\ backups' = BackupFile(backups, disk, TRUE)
            /\ disk' = disk
            /\ df' = ReadTable(disk)
            /\ data_tree' = Refresh(filtered_df, df', current_page)
            /\ last' = Did("load_data")
       ELSE /\ UNCHANGED <<disk, backups, df, data_tree, ops>>
            /\ last' = Refused("load_data")
    /\ UNCHANGED <<read_only, limit, filtered_df, current_page, modified,
                   sort_column, sort_ascending>>
    /\ Modeless
    /\ NoConv

\* Sessions on a writable tab: the tab as opened.
InitSession ==
    /\ read_only = FALSE
    /\ InitTab(MaxRows - 1)
    /\ ConvIdle
    /\ limit = MaxOps - 1

\* The handlers of the tab, and those of the dialog with its two check
\* boxes left unchecked, as CTkCheckBox creates them.
NextSession ==
    \/ first_page
    \/ prev_page
    \/ next_page
    \/ last_page
    \/ \E q \in QueryTexts : execute_sql(q)
    \/ clear_filter
    \/ \E j \in ColIdx : on_header_click(j)
    \/ \E k \in 1..PageSize, j \in ColIdx, v \in EditValues : edit_cell(k, j, v)
    \/ add_record
    \/ \E sel \in SUBSET (1..PageSize), confirm \in BOOLEAN : delete_selected(sel, confirm)
    \/ \E backup_ok \in BOOLEAN, fail \in -1..MaxRows : save_changes(backup_ok, fail)
    \/ open_find_replace
    \/ close_dialog
    \/ \E f \in FindTexts : find_next(f, FALSE, FALSE)
    \/ \E f \in FindTexts, r \in ReplaceTexts : replace_current(f, r, FALSE)
    \/ \E f \in FindTexts, r \in ReplaceTexts, confirm \in BOOLEAN :
          replace_all(f, r, FALSE, FALSE, confirm)
    \/ \E confirm \in BOOLEAN, converted \in BOOLEAN :
          convert_and_load_data(confirm, converted)

SpecSession == InitSession /\ [][NextSession]_vars

\* The cell contents of record k of a Stata file whose second variable is
\* numeric with missing values: pyreadstat.read_dta yields NaN for them.
StataCells(k) == IF k % 2 = 1 THEN << <<"b">>, NaN >>
                 ELSE << <<"a">>, <<"a">> >>

\* DTADataTab.load_data on a file of n observations.
LoadStata(n) == [k \in 1..n |-> [id |-> k, lbl |-> k - 1, c |-> StataCells(k)]]

\* A tab on a Stata file of n observations, always read-only.
InitStata ==
    /\ read_only = TRUE
    /\ \E n \in 0..MaxRows :
          /\ df = LoadStata(n)
          /\ disk = [k \in 1..n |-> StataCells(k)]
    /\ filtered_df = NoFilter
    /\ current_page = 0
    /\ modified = FALSE
    /\ sort_column = 0
    /\ sort_ascending = TRUE
    /\ data_tree = Refresh(NoFilter, df, 0)
    /\ backups = {}
    /\ dialog_open = FALSE
    /\ matches = <<>>
    /\ current_match_index = -1
    /\ last_search = Unset
    /\ searched = NoSearch
    /\ ops = 0
    /\ last = Did("load_data")
    /\ ConvIdle
    /\ limit = MaxOps

\* The handlers of a Stata tab: those of BaseDataTab (on_double_click does
\* nothing, and the tab has no Add, Delete or Save button).
NextStata ==
    \/ first_page
    \/ prev_page
    \/ next_page
    \/ last_page
    \/ \E q \in QueryTexts : execute_sql(q)
    \/ clear_filter
    \/ \E j \in ColIdx : on_header_click(j)

SpecStata == InitStata /\ [][NextStata]_vars

\* ------------------------------------------------- column names for DBF

\* Largest number of columns of a frame prepared for DBF.
MaxCols == 3

LowerLetters == <<"a", "b", "c", "d", "e", "f", "g", "h", "i", "j">>

UpperLetters == <<"A", "B", "C", "D", "E", "F", "G", "H", "I", "J">>

\* str.upper() on one character of the names the model uses.
UpperChar(ch) ==
    IF \E i \in 1..Len(LowerLetters) : LowerLetters[i] = ch
    THEN UpperLetters[CHOOSE i \in 1..Len(LowerLetters) : LowerLetters[i] = ch]
    ELSE ch

UpperStr(s) == [i \in 1..Len(s) |-> UpperChar(s[i])]

\* c.isalnum() or c == '_'
IsNameChar(ch) ==
    \/ \E i \in 1..Len(LowerLetters) : ch \in {LowerLetters[i], UpperLetters[i]}
    \/ ch \in {"1", "2", "_"}

\* s.replace(x, '_')
ReplaceChar(s, x) == [i \in 1..Len(s) |-> IF s[i] = x THEN "_" ELSE s[i]]

\* s[:10]
First10(s) == SubSeq(s, 1, Min(10, Len(s)))

\* ''.join(c for c in s if c.isalnum() or c == '_')
RECURSIVE KeepNameChars(_)
KeepNameChars(s) ==
    IF s = <<>> THEN <<>>
    ELSE (IF IsNameChar(Head(s)) THEN <<Head(s)>> ELSE <<>>) \o KeepNameChars(Tail(s))

\* clean_name of _prepare_dataframe_for_dbf for one column.
clean_name(col) ==
    LET kept == KeepNameChars(First10(ReplaceChar(UpperStr(col), " ")))
    IN  IF kept = <<>> THEN <<"F", "I", "E", "L", "D">> ELSE kept

\* clean_name of StataConversionDialog.create_dbf_from_dataframe:
\* col.replace(' ', '_')[:10].upper()
stata_clean_name(col) == UpperStr(First10(ReplaceChar(col, " ")))

\* col_name of import_xml_to_dbf for one tag:
\* child.tag.upper()[:10], then '-' and ' ' replaced by '_'.
xml_col_name(tag) == ReplaceChar(ReplaceChar(First10(UpperStr(tag)), "-"), " ")

\* The keys of the record dict in the order of their first appearance,
\* which are the columns of pd.DataFrame(records).
RECURSIVE DictKeys(_)
DictKeys(names) ==
    IF names = <<>> THEN <<>>
    ELSE LET front == DictKeys(SubSeq(names, 1, Len(names) - 1))
             x == names[Len(names)]
         IN  IF \E i \in 1..Len(front) : front[i] = x THEN front
             ELSE Append(front, x)

\* The source column names the model tries: names that differ in case
\* only, in a space against an underscore, after the tenth character, and
\* a name without any valid character.
SampleNames ==
    { <<"a">>, <<"A">>, <<"a", " ", "b">>, <<"a", "_", "b">>, <<"-">>,
      <<"a", "b", "c", "d", "e", "f", "g", "h", "i", "j", "1">>,
      <<"a", "b", "c", "d", "e", "f", "g", "h", "i", "j", "2">> }

\* The column lists of the frames: up to MaxCols pairwise distinct names.
SampleFrames ==
    {cols \in UNION {[1..n -> SampleNames] : n \in 1..MaxCols} :
        \A i, n \in 1..Len(cols) : i # n => cols[i] # cols[n]}

\* No frame was prepared in the session yet (a session prepares one).
NoFrameYet == last.op = "load_data"

\* A step that leaves the tab, the dialog, the files and the converter
\* alone.
Aside == UNCHANGED <<tabvars, dlgvars, filevars, convvars, limit, ops>>

\* _prepare_dataframe_for_dbf on a frame with the columns cols (CSV import).
_prepare_dataframe_for_dbf(cols) ==
    /\ NoFrameYet
    /\ last' = [op |-> "_prepare_dataframe_for_dbf", done |-> TRUE,
                columns |-> cols,
                new_columns |-> [i \in 1..Len(cols) |-> clean_name(cols[i])]]
    /\ Aside

\* import_xml_to_dbf on records whose children carry the tags given: the
\* tags become the keys of the records, the frame built from them is
\* prepared for DBF. (A tag holds no space.)
import_xml_to_dbf(tags) ==
    /\ NoFrameYet
    /\ \A i \in 1..Len(tags) : \A n \in 1..Len(tags[i]) : tags[i][n] # " "
    /\ LET keys == DictKeys([i \in 1..Len(tags) |-> xml_col_name(tags[i])])
       IN  last' = [op |-> "import_xml_to_dbf", done |-> TRUE,
                    columns |-> tags,
                    new_columns |-> [i \in 1..Len(keys) |-> clean_name(keys[i])]]
    /\ Aside

\* create_dbf_from_dataframe of the Stata dialog on a frame with the
\* columns cols: the field specifications it hands to dbf.Table.
create_dbf_from_dataframe(cols) ==
    /\ NoFrameYet
    /\ last' = [op |-> "create_dbf_from_dataframe", done |-> TRUE,
                columns |-> cols,
                new_columns |-> [i \in 1..Len(cols) |-> stata_clean_name(cols[i])]]
    /\ Aside

\* Imports and Stata conversions, one frame at a time.
NextPrepare ==
    \/ \E cols \in SampleFrames : _prepare_dataframe_for_dbf(cols)
    \/ \E tags \in SampleFrames : import_xml_to_dbf(tags)
    \/ \E cols \in SampleFrames : create_dbf_from_dataframe(cols)

InitPrepare ==
    /\ read_only = FALSE
    /\ InitTab(0)
    /\ ConvIdle
    /\ limit = MaxOps

SpecPrepare == InitPrepare /\ [][NextPrepare]_vars

\* =================================================================== claims

\* The least k with k * d >= n.
CeilDiv(n, d) == CHOOSE k \in 0..n : k * d >= n /\ \A j \in 0..(k - 1) : j * d < n

\* The row contents of a table, labels aside.
Content(t) == [k \in 1..Len(t) |-> [id |-> t[k].id, c |-> t[k].c]]

\* The ids of the rows of t2 that are new or differ from their row in t.
ChangedIds(t, t2) ==
    {t2[k].id : k \in {i \in 1..Len(t2) :
        ~\E h \in 1..Len(t) : t[h].id = t2[i].id /\ t[h].c = t2[i].c}}

\* C1: for the active view of n rows, page p shows rows
\* [p*pageSize, min((p+1)*pageSize, n)), the pages 0..totalPages-1 show
\* every row exactly once, totalPages = max(1, ceil(n/pageSize)), an empty
\* view has one page that shows nothing, and the tree holds the current page.
C1_PaginationComplete ==
    LET view == display_df
        n == Len(view)
        tp == TotalPages(n)
    IN /\ tp = Max(1, CeilDiv(n, rows_per_page))
       /\ \A p \in 0..(tp - 1) :
              PageItems(view, p) =
                  [k \in 1..(Min((p + 1) * rows_per_page, n) - p * rows_per_page) |->
                      TreeItem(view[p * rows_per_page + k])]
       /\ \A i \in 1..n :
              Cardinality({pk \in (0..(tp - 1)) \X (1..rows_per_page) :
                  /\ pk[2] <= Len(PageItems(view, pk[1]))
                  /\ PageItems(view, pk[1])[pk[2]].id = view[i].id}) = 1
       /\ n = 0 => (tp = 1 /\ PageItems(view, 0) = <<>>)
       /\ current_page <= tp - 1 => data_tree = PageItems(view, current_page)

\* C1 witness: the second page of a view of more than one page is shown.
C1_Witness ==
    /\ Len(display_df) > rows_per_page
    /\ current_page = 1
    /\ Len(data_tree) >= 1
    /\ last = Did("next_page")

\* C2 (as claimed): in every reachable state the page index is valid for
\* the active view, 0 <= current_page <= totalPages - 1.
C2_PageIndexValid ==
    /\ current_page >= 0
    /\ current_page <= Max(1, CeilDiv(Len(display_df), rows_per_page)) - 1

\* C3 (as claimed): with a query View active, a cell edit changes the row
\* the tree shows at the edited position and no other row of the base
\* table, and a delete removes exactly the rows the tree shows selected.
C3_ActsOnViewRow ==
    [][/\ \A k \in 1..PageSize, j \in ColIdx, v \in EditValues :
             (filtered_df.some /\ ~read_only /\ edit_cell(k, j, v)) =>
                 /\ ChangedIds(df, df') \subseteq {data_tree[k].id}
                 /\ \E i \in 1..Len(df') :
                        df'[i].id = data_tree[k].id /\ df'[i].c[j] = v
       /\ \A sel \in SUBSET (1..PageSize) :
             (filtered_df.some /\ ~read_only /\ sel # {}
                  /\ delete_selected(sel, TRUE) /\ last'.done) =>
                 Ids(df) \ Ids(df') = {data_tree[k].id : k \in sel}
      ]_vars

\* C5 (as claimed): deleting the selected indices S, each the index of a
\* row of the table, removes exactly the rows at those indices and keeps
\* the others in order; the table shrinks by |S| rows.
C5_DeleteBySnapshot ==
    [][\A sel \in SUBSET (1..PageSize) :
          LET S == IndicesToDelete(sel, current_page)
          IN (/\ ~read_only
              /\ sel # {}
              /\ S \subseteq 0..(Len(df) - 1)
              /\ delete_selected(sel, TRUE)) =>
                 /\ Content(df') = Content(Pick(df, {k \in 1..Len(df) : (k - 1) \notin S}))
                 /\ Len(df') = Len(df) - Cardinality(S)
      ]_vars

\* C4 (as claimed): replaceCurrent and replaceAll write the new value into
\* the cell of the active view in which search found the match, and change
\* no cell of any other row.
C4_ReplaceHitsMatch ==
    [][/\ \A f \in FindTexts, r \in ReplaceTexts, cs \in BOOLEAN :
             (replace_current(f, r, cs) /\ last'.done) =>
                 LET m == matches[current_match_index + 1]
                     hit == display_df[m.row + 1].id
                 IN /\ \E i \in 1..Len(display_df') :
                           /\ display_df'[i].id = hit
                           /\ display_df'[i].c[m.col] = NewValue(m.val, f, r, cs)
                    /\ ChangedIds(df, df') \subseteq {hit}
       /\ \A f \in FindTexts, r \in ReplaceTexts, cs \in BOOLEAN, pm \in BOOLEAN :
             (replace_all(f, r, cs, pm, TRUE) /\ last'.done) =>
                 LET ms == SearchData(display_df, f, cs, pm)
                 IN /\ \A x \in 1..Len(ms) :
                           \E i \in 1..Len(display_df') :
                               /\ display_df'[i].id = display_df[ms[x].row + 1].id
                               /\ display_df'[i].c[ms[x].col] = NewValue(ms[x].val, f, r, cs)
                    /\ ChangedIds(df, df') \subseteq
                           {display_df[ms[x].row + 1].id : x \in 1..Len(ms)}
      ]_vars

\* C6 (as claimed): a save that fails after the backup was made, while the
\* file is re-created or a row is written, leaves the file with its
\* pre-save content, the backup present and the modified flag set.
C6_SaveAtomic ==
    [][(last'.op = "save_changes" /\ last'.tried /\ last'.backup_ok
            /\ last'.fail >= 1) =>
           /\ disk' = disk
           /\ disk \in backups'
           /\ modified'
      ]_vars

\* C7 (as claimed): a save whose backup fails is aborted: the file is not
\* re-created or written and the modified flag stays set.
C7_SaveFailClosed ==
    [][(last'.op = "save_changes" /\ last'.tried /\ ~last'.backup_ok) =>
           /\ disk' = disk
           /\ modified'
      ]_vars

\* The converter call a step makes, if it makes one.
Converts == Len(conv_log') > Len(conv_log)

\* The record of the call the step makes.
Call == conv_log'[Len(conv_log')]

\* C8: a converter call asked for a backup overwrites the file only after
\* a backup holding the original bytes exists, and when the copy of the
\* backup fails it returns False and leaves the file as it was.
C8_BackupFailClosed ==
    [][(Converts /\ Call.create_backup /\ file_bytes # Missing) =>
           /\ Call.ret => file_bytes \in bak_files'
           /\ file_bytes' # file_bytes => file_bytes \in bak_files'
           /\ ~Call.copy_ok => /\ ~Call.ret
                               /\ file_bytes' = file_bytes
                               /\ bak_files' = bak_files
      ]_vars

\* A conversion with a backup went through and changed the file, then a
\* second one could not make its backup and left the file alone.
C8_Witness ==
    /\ Len(conv_log) = 2
    /\ conv_log[1].create_backup /\ conv_log[1].ret
    /\ conv_log[1].after # conv_log[1].before
    /\ conv_log[1].before \in bak_files
    /\ conv_log[2].create_backup /\ ~conv_log[2].copy_ok /\ ~conv_log[2].ret
    /\ conv_log[2].from_encoding = "cp1252" /\ conv_log[2].to_encoding = "utf-8"
    /\ \E i \in 1..Len(file_bytes) : file_bytes[i] = 233
    /\ file_bytes = conv_log[1].after

\* The little-endian 16-bit integer at byte offset 8 of b.
LE16At8(b) == b[9] + 256 * b[10]

\* The first h bytes of b (all of b if it has fewer).
FirstBytes(b, h) == SubSeq(b, 1, Min(h, Len(b)))

\* C9: a successful conversion of a .dbf file whose header length field
\* is H leaves the first H bytes of the file as they were, whatever the
\* pair of code pages and whether or not the lossy fallback was used.
C9_HeaderInvariant ==
    [][(Converts /\ is_dbf /\ Call.ret) =>
           FirstBytes(file_bytes', LE16At8(file_bytes))
               = FirstBytes(file_bytes, LE16At8(file_bytes))
      ]_vars

\* A .dbf file whose header is one byte longer than the least size, that
\* byte not being ASCII, was converted and its data changed.
C9_Witness ==
    /\ is_dbf
    /\ Len(conv_log) >= 1
    /\ LET e == conv_log[Len(conv_log)]
       IN  /\ e.ret
           /\ e.after # e.before
           /\ e.after = file_bytes
           /\ LE16At8(e.before) = DbfMinSize + 1
           /\ Len(e.before) = DbfMinSize + 2
           /\ e.before[DbfMinSize + 1] >= 128

\* The part of file content b that the converter decodes.
DataRegion(b, dbf) ==
    IF ~dbf THEN b
    ELSE IF Len(b) < DbfMinSize THEN <<>>
    ELSE SubSeq(b, Min(LE16At8(b), Len(b)) + 1, Len(b))

\* Calls i and i + 1 of the session convert A -> B and then B -> A, both
\* without backup, on a file whose data region decodes cleanly under A.
RoundTripAt(i) ==
    /\ conv_log[i].before # Missing
    /\ ~conv_log[i].create_backup /\ ~conv_log[i + 1].create_backup
    /\ conv_log[i + 1].from_encoding = conv_log[i].to_encoding
    /\ conv_log[i + 1].to_encoding = conv_log[i].from_encoding
    /\ ~DecodeError(DataRegion(conv_log[i].before, is_dbf), conv_log[i].from_encoding)

ChangedCells(t, t2) ==
    {x \in (1..Min(Len(t), Len(t2))) \X ColIdx : t2[x[1]].c[x[2]] # t[x[1]].c[x[2]]}

\* The cells of view t that match m names: its row label and column.
CellsOf(t, m) == {x \in (1..Len(t)) \X ColIdx : t[x[1]].lbl = m.row /\ x[2] = m.col}

\* C11 (as claimed): after a search, with the entries and check boxes left
\* as they were ever since and a replacement text that does not match the
\* find text,
\* each replace_current changes exactly one cell of the active view, the
\* matching cell under the cursor, and shortens the match list by one;
\* when the list is empty the same search finds nothing any more.
C11_Exhaustion ==
    [][\A f \in FindTexts, r \in ReplaceTexts, cs \in BOOLEAN :
          (replace_current(f, r, cs) /\ last'.done /\ searched'.kept) =>
             LET m == matches[current_match_index + 1]
             IN  /\ Len(matches') = Len(matches) - 1
                 /\ Len(display_df') = Len(display_df)
                 /\ Cardinality(CellsOf(display_df, m)) = 1
                 /\ ChangedCells(display_df, display_df') = CellsOf(display_df, m)
                 /\ matches' = <<>> =>
                        SearchData(display_df', searched.text, searched.cs,
                                   searched.pm) = <<>>
      ]_vars

\* C12 (as claimed): the cursor is -1 or an index into the match list, and
\* it is -1 whenever the match list is empty.
C12_CursorValid ==
    /\ -1 <= current_match_index
    /\ current_match_index < Len(matches)
    /\ matches = <<>> => current_match_index = -1

\* C13 (as claimed): replace_current and replace_all called with a blank
\* find text change nothing: no cell of the table, not the modified flag,
\* not the match list.
C13_BlankFindRefused ==
    [][\A r \in ReplaceTexts, cs \in BOOLEAN :
          (\/ replace_current(<<>>, r, cs)
           \/ \E pm \in BOOLEAN, confirm \in BOOLEAN :
                 replace_all(<<>>, r, cs, pm, confirm)) =>
             /\ df' = df
             /\ modified' = modified
             /\ matches' = matches
             /\ ~last'.done
      ]_vars

\* C14: replace_current called with the cursor at -1, with an empty match
\* list or on a read-only tab is refused and leaves the table, the
\* modified flag, the match list and the cursor as they were.
C14_ReplaceCurrentRefused ==
    [][\A f \in FindTexts, r \in ReplaceTexts, cs \in BOOLEAN :
          (/\ replace_current(f, r, cs)
           /\ current_match_index = -1 \/ matches = <<>> \/ read_only) =>
             /\ df' = df
             /\ modified' = modified
             /\ matches' = matches
             /\ current_match_index' = current_match_index
             /\ ~last'.done
      ]_vars

\* Replace was pressed on a read-only tab with the cursor on a match.
C14_Witness ==
    /\ last = Refused("replace_current")
    /\ read_only
    /\ matches # <<>>
    /\ current_match_index >= 0
    /\ current_match_index < Len(matches)

\* The records of a table, whatever their order and labels.
Records(t) == {[id |-> t[k].id, c |-> t[k].c] : k \in 1..Len(t)}

\* C15: in a read-only tab no handler changes the data or the file: the
\* records of the base table and their number stay what they were, the
\* modified flag stays false and the file and its backups are not written.
C15_ReadOnlyFrozen ==
    [][read_only =>
           /\ Records(df') = Records(df)
           /\ Len(df') = Len(df)
           /\ ~modified /\ ~modified'
           /\ disk' = disk
           /\ backups' = backups
           /\ read_only'
      ]_vars

\* On a read-only tab showing a sorted query View, Replace All was pressed
\* with the cursor on a match.
C15_Witness ==
    /\ read_only
    /\ last = Refused("replace_all")
    /\ filtered_df.some
    /\ sort_column # 0
    /\ matches # <<>>
    /\ current_match_index >= 0
    /\ Len(df) = MaxRows

\* C16 (as claimed): after every execute_sql call the current page is 0.
C16_QueryResetsPage ==
    [][\A q \in QueryTexts : execute_sql(q) => current_page' = 0]_vars

\* C16 (amended): after every execute_sql call that executes its query (the
\* text is not blank and the backend accepts it) the current page is 0 and
\* the first page of the result is shown; a blank or rejected query leaves
\* the page where it was.
C16_ExecutedQueryResetsPage ==
    [][\A q \in QueryTexts :
          execute_sql(q) =>
             IF last'.done
             THEN /\ current_page' = 0
                  /\ data_tree' = PageItems(filtered_df'.rows, 0)
             ELSE current_page' = current_page
      ]_vars

\* A query was executed while the second page was shown.
C16_Witness ==
    /\ last.op = "execute_sql"
    /\ last.done
    /\ last.page = 1
    /\ current_page = 0
    /\ Len(filtered_df.rows) > rows_per_page

\* C17 (as claimed): after a sort (header click) and after clear_filter the
\* current page is 0, whatever page was shown before.
C17_ViewChangeResetsPage ==
    [][(clear_filter \/ \E j \in ColIdx : on_header_click(j)) =>
           current_page' = 0
      ]_vars

\* The handlers that change the table when they go through.
Mutators == {"edit_cell", "add_record", "delete_selected", "replace_current",
             "replace_all"}

\* C18: the modified flag is false after load; every edit, add, delete,
\* replace_current and replace_all that goes through sets it; save_changes
\* clears it when the save goes through and leaves it as it was when the
\* save fails or is refused; every other handler (paging, sorting, querying,
\* clear_filter, searching, opening and closing the dialog) and every
\* refused call leaves it as it was.
C18_ModifiedTracksChanges ==
    /\ [](last.op = "load_data" /\ last.done => ~modified)
    /\ [][IF last'.op \in Mutators /\ last'.done THEN modified'
          ELSE IF last'.op = "save_changes" /\ last'.done THEN ~modified'
          ELSE modified' = modified
         ]_vars

\* C19: a query that is executed is evaluated over the whole base table,
\* whatever view is active: the result over df becomes the view and is what
\* the widget shows from page 0 on, and df keeps its rows in their order.
C19_QueryOverBaseTable ==
    [][\A q \in QueryTexts :
          execute_sql(q) /\ last'.done =>
              /\ filtered_df'.some
              /\ filtered_df'.rows = QueryResult(Strip(q), df)
              /\ data_tree' = PageItems(filtered_df'.rows, current_page')
              /\ df' = df
      ]_vars

\* A query was executed while a narrower view was active, and its result
\* holds every row of the base table.
C19_Witness ==
    /\ last.op = "execute_sql"
    /\ last.done
    /\ last.shown < Len(df)
    /\ filtered_df.some
    /\ Len(filtered_df.rows) = Len(df)

\* The query texts that fail: the blank ones and the one sqlite rejects.
FailingQueries == {"", "  ", "SELEC"}

\* C20: execute_sql on a blank query or on a query the backend rejects
\* shows a message box and leaves the view, the base table, the sort state,
\* the page, the widget and the modified flag as they were.
C20_FailedQueryChangesNothing ==
    [][\A q \in FailingQueries :
          execute_sql(q) =>
              /\ last'.msg \in {"showinfo", "showerror"}
              /\ UNCHANGED <<filtered_df, df, sort_column, sort_ascending,
                             current_page, data_tree, modified>>
      ]_vars

\* The backend rejected a query typed while a view was active on a sorted
\* tab.
C20_Witness ==
    /\ last.op = "execute_sql"
    /\ ~last.done
    /\ last.msg = "showerror"
    /\ filtered_df.some
    /\ Len(filtered_df.rows) > 0
    /\ sort_column # 0

\* The query texts in which the table name data occurs, in any letter
\* case.
ReferencesData == {"SELECT * FROM data", "SELECT * FROM data WHERE NAME = 'a'",
                   "SELECT * FROM data WHERE 0"}

\* C21: execute_sql on a query text in which the table name data does not
\* occur shows a message and leaves the view and the page as they were.
C21_MissingTableRejected ==
    [][\A q \in QueryTexts \ ReferencesData :
          execute_sql(q) =>
              /\ ~last'.done
              /\ last'.msg # "none"
              /\ UNCHANGED <<filtered_df, current_page>>
      ]_vars

\* C22: every connection execute_sql opened has been closed by the call
\* when it returns, whether the query went through or failed.
C22_ConnectionClosed ==
    last.op = "execute_sql" => last.closed

\* What the tab holds and shows.
TabState == <<df, filtered_df, current_page, data_tree, sort_column,
              sort_ascending, modified>>

\* C23: after clear_filter no view is active, the tab shows the first page
\* of the base table as it is now, and the base table is what it was; a
\* clear_filter with no view active leaves the view and the base table as
\* they were, and one that follows a clear_filter changes nothing at all in
\* the tab.
C23_ClearFilter ==
    [][clear_filter =>
          /\ filtered_df' = NoFilter
          /\ DisplayOf(filtered_df', df') = df
          /\ df' = df
          /\ data_tree' = PageItems(df, 0)
          /\ (~filtered_df.some => filtered_df' = filtered_df)
          /\ (last.op = "clear_filter" => UNCHANGED TabState)
      ]_vars

\* clear_filter discarded a view that held fewer rows than the base table,
\* and the tab shows the base table again.
C23_Witness ==
    /\ last.op = "clear_filter"
    /\ last.shown < Len(df)
    /\ ~filtered_df.some
    /\ Len(data_tree) = Min(rows_per_page, Len(df))

\* Table t is ordered on column j in the direction asc, as far as its
\* non-missing keys go.
OrderedOn(t, j, asc) ==
    \A a, b \in 1..Len(t) :
        a < b /\ ~IsNA(t[a].c[j]) /\ ~IsNA(t[b].c[j]) =>
            IF asc THEN ~StrLess(t[b].c[j], t[a].c[j])
            ELSE ~StrLess(t[a].c[j], t[b].c[j])

\* C24: a click on the heading of the sort column flips the direction; a
\* click on any other heading, the first click of the session included,
\* sorts ascending whatever the direction was; the clicked column becomes
\* the sort column and the table shown is ordered on it in that direction.
C24_SortToggle ==
    [][\A j \in ColIdx :
          on_header_click(j) =>
              /\ sort_column' = j
              /\ sort_ascending' = (IF sort_column = j THEN ~sort_ascending
                                    ELSE TRUE)
              /\ OrderedOn(DisplayOf(filtered_df', df'), j, sort_ascending')
      ]_vars

\* A column was sorted descending, then another heading was clicked: the
\* table shown is in ascending order on the new column, with two
\* different keys.
C24_Witness ==
    /\ last.op = "on_header_click"
    /\ last.prev_column \in ColIdx \ {sort_column}
    /\ ~last.prev_ascending
    /\ sort_ascending
    /\ \E a, b \in 1..Len(display_df) :
           StrLess(display_df[a].c[sort_column], display_df[b].c[sort_column])

\* Table t2 holds the rows of t, each as often as t does, in some order
\* (labels aside).
SameRows(t2, t) ==
    /\ Len(t2) = Len(t)
    /\ \E p \in Permutations(1..Len(t)) :
           \A k \in 1..Len(t) : Content(t2)[k] = Content(t)[p[k]]

\* C25: a click on a heading while a view is active re-orders the rows of
\* the view and leaves the base table as it was, row order included; with
\* no view active it re-orders the rows of the base table; the re-ordered
\* table holds the rows it held, each as often as before.
C25_SortFrame ==
    [][\A j \in ColIdx :
          on_header_click(j) =>
              IF filtered_df.some
              THEN /\ df' = df
                   /\ filtered_df'.some
                   /\ SameRows(filtered_df'.rows, filtered_df.rows)
              ELSE /\ filtered_df' = filtered_df
                   /\ SameRows(df', df)
      ]_vars

\* A click re-ordered a view of several rows (its rows no longer come in
\* the order of the file) over a base table still in the order of the file.
C25_Witness ==
    /\ last.op = "on_header_click"
    /\ filtered_df.some
    /\ \E a, b \in 1..Len(filtered_df.rows) :
           a < b /\ filtered_df.rows[a].id > filtered_df.rows[b].id
    /\ Len(df) >= 2
    /\ \A a, b \in 1..Len(df) : a < b => df[a].id < df[b].id

\* A cell that holds no value: NULL (None, NaN) or the empty text.
NoValue(v) == IsNA(v) \/ v = Empty

\* C26: after a click on a heading the rows of the table shown whose cell
\* in the sort column holds no value come before all the others when the
\* sort is ascending and after all the others when it is descending.
C26_MissingSortsFirst ==
    [][\A j \in ColIdx :
          on_header_click(j) =>
              LET t == DisplayOf(filtered_df', df')
              IN \A a, b \in 1..Len(t) :
                     NoValue(t[a].c[j]) /\ ~NoValue(t[b].c[j]) =>
                         IF sort_ascending' THEN a < b ELSE a > b
      ]_vars

\* C27: a cell edit never changes the number of rows of the table, and an
\* edit whose row index is not below the length of the table fails and
\* leaves the table as it was.
C27_EditKeepsShape ==
    [][\A k \in 1..PageSize, j \in ColIdx, v \in EditValues :
          edit_cell(k, j, v) =>
              /\ Len(df') = Len(df)
              /\ (RowIndex(k, current_page) >= Len(df) =>
                      df' = df /\ ~last'.done)
      ]_vars

\* The cells (row id, column) of t that _search_data returns for the
\* given find text and check boxes.
MatchedCells(t, find_text, case_sensitive, partial_match) ==
    {<<t[k].id, j>> : k \in 1..Len(t), j \in ColIdx} \cap
    {c \in Ids(t) \X ColIdx :
        \E k \in 1..Len(t) :
            /\ t[k].id = c[1]
            /\ CellMatches(CellText(t[k].c[c[2]]), find_text, case_sensitive,
                           partial_match)}

\* C28: a replace_all that is confirmed and goes through searches the table
\* shown as it is now, whatever the match list held; afterwards every cell
\* that search returned holds its text with the find text replaced, every
\* other cell of the table holds what it held, the table has the rows it
\* had, modified is set, the match list is empty and the cursor is -1.
C28_ReplaceAll ==
    [][\A f \in FindTexts, r \in ReplaceTexts, cs \in BOOLEAN, pm \in BOOLEAN :
          replace_all(f, r, cs, pm, TRUE) /\ last'.done =>
              /\ modified'
              /\ matches' = <<>>
              /\ current_match_index' = -1
              /\ Len(df') = Len(df)
              /\ \A k \in 1..Len(df) :
                     /\ df'[k].id = df[k].id
                     /\ \A j \in ColIdx :
                            df'[k].c[j] =
                                IF <<df[k].id, j>> \in MatchedCells(display_df, f, cs, pm)
                                THEN NewValue(CellText(df[k].c[j]), f, r, cs)
                                ELSE df[k].c[j]
      ]_vars

\* C29: a find_next with the find text of the search that built the
\* match list keeps the list and moves the cursor to the next match, from
\* the last one to the first; a find_next with another find text searches
\* the table shown again and lands on the first match of the new list, the
\* cursor staying at -1 when the new list is empty.
C29_FindNextAdvances ==
    [][matches # <<>> /\ last_search # Unset /\ last'.op = "find_next" =>
          \A f \in FindTexts \ {<<>>}, cs \in BOOLEAN, pm \in BOOLEAN :
              find_next(f, cs, pm) =>
                  IF f = last_search
                  THEN /\ matches' = matches
                       /\ current_match_index' =
                              (current_match_index + 1) % Len(matches)
                  ELSE /\ matches' = SearchData(display_df, f, cs, pm)
                       /\ current_match_index' =
                              (IF matches' = <<>> THEN -1 ELSE 0)
      ]_vars

\* find_next went from the last of several matches back to the first.
C29_Witness ==
    /\ last.op = "find_next"
    /\ last.done
    /\ ~last.fresh
    /\ Len(matches) >= 2
    /\ last.prev = Len(matches) - 1
    /\ current_match_index = 0

\* Text f occurs in text s.
Occurs(f, s) ==
    \E i \in 1..(Len(s) + 1) :
        i + Len(f) - 1 <= Len(s) /\ \A n \in 1..Len(f) : s[i + n - 1] = f[n]

\* The match predicate on a cell text: containment when partial_match is
\* on, equality otherwise, both texts folded when case_sensitive is off.
IsMatch(text, f, case_sensitive, partial_match) ==
    LET a == IF case_sensitive THEN text ELSE LowerStr(text)
        b == IF case_sensitive THEN f ELSE LowerStr(f)
    IN IF partial_match THEN Occurs(b, a) ELSE a = b

\* The place of a match in the scan of t: rows in the order of t, columns
\* in their order within a row.
ScanPlace(t, m) ==
    (CHOOSE k \in 1..Len(t) : t[k].lbl = m.row) * Len(Columns) + m.col

\* The list ms holds exactly the matching cells of t, each once, in the
\* order of the scan, with the text of the cell.
IsSearchResult(ms, t, f, case_sensitive, partial_match) ==
    LET hits == {c \in (1..Len(t)) \X ColIdx :
                    IsMatch(CellText(t[c[1]].c[c[2]]), f, case_sensitive,
                            partial_match)}
    IN /\ Len(ms) = Cardinality(hits)
       /\ \A i \in 1..Len(ms) :
              \E c \in hits : /\ ms[i].row = t[c[1]].lbl
                              /\ ms[i].col = c[2]
                              /\ ms[i].val = CellText(t[c[1]].c[c[2]])
       /\ \A i, n \in 1..Len(ms) :
              i < n => ScanPlace(t, ms[i]) < ScanPlace(t, ms[n])

\* C30: the match list a find_next builds when it searches is the list of
\* exactly the cells of the table shown that satisfy the match predicate,
\* each once, by row and then by column.
C30_SearchExact ==
    [][last'.op = "find_next" =>
          \A f \in FindTexts \ {<<>>}, cs \in BOOLEAN, pm \in BOOLEAN :
              find_next(f, cs, pm) /\ (matches = <<>> \/ last_search # f) =>
                  IsSearchResult(matches', display_df, f, cs, pm)
      ]_vars

\* A search with partial match on and case sensitivity off returned
\* several cells, one of them matching only after folding.
C30_Witness ==
    /\ last.op = "find_next"
    /\ last.done
    /\ last.fresh
    /\ searched.pm
    /\ ~searched.cs
    /\ Len(matches) >= 3
    /\ \E i \in 1..Len(matches) :
           Occurs(<<"A">>, matches[i].val) /\ ~Occurs(searched.text, matches[i].val)

\* C31: a converter call that returns False leaves the bytes of the file
\* as they were; on a path that does not exist the call returns False and
\* creates neither the file nor a backup.
C31_FailureKeepsFile ==
    [][Converts =>
           /\ ~Call.ret => file_bytes' = file_bytes
           /\ file_bytes = Missing => /\ ~Call.ret
                                      /\ file_bytes' = Missing
                                      /\ bak_files' = bak_files
      ]_vars

\* A conversion from cp1252 to cp437 of an existing file failed on a
\* character that cp437 cannot encode, after the backup had been made, and
\* the file holds the bytes it held.
C31_Witness ==
    /\ Len(conv_log) >= 1
    /\ LET e == conv_log[Len(conv_log)]
       IN  /\ ~e.ret
           /\ e.before # Missing
           /\ e.create_backup /\ e.copy_ok
           /\ e.from_encoding = "cp1252" /\ e.to_encoding = "cp437"
           /\ ~is_dbf \/ Len(e.before) > DbfMinSize
           /\ \E i \in 1..Len(e.before) : e.before[i] = 128
           /\ file_bytes = e.before
           /\ e.before \in bak_files

\* C32: a converter call on an existing file (a .dbf of at least 32 bytes,
\* or any other file) whose backup, if asked for, is made, and whose data
\* region does not decode under the source code page, returns True and
\* writes the bytes before the data region as they were followed by the
\* data region decoded and encoded with errors='replace'.
C32_LossyFallback ==
    [][(/\ Converts
        /\ file_bytes # Missing
        /\ is_dbf => Len(file_bytes) >= DbfMinSize
        /\ Call.create_backup => Call.copy_ok
        /\ DecodeError(DataRegion(file_bytes, is_dbf), Call.from_encoding)) =>
           LET region == DataRegion(file_bytes, is_dbf)
               head == SubSeq(file_bytes, 1, Len(file_bytes) - Len(region))
           IN  /\ Call.ret
               /\ file_bytes' = head \o EncodeReplace(
                                     DecodeReplace(region, Call.from_encoding),
                                     Call.to_encoding)
      ]_vars

\* The last call converted from cp1252 a data region holding byte 0x81,
\* which cp1252 does not define, returned True and wrote a placeholder in
\* its place.
C32_Witness ==
    /\ Len(conv_log) >= 1
    /\ LET e == conv_log[Len(conv_log)]
       IN  /\ e.ret
           /\ e.from_encoding = "cp1252"
           /\ e.before # Missing
           /\ \E i \in 1..Len(DataRegion(e.before, is_dbf)) :
                  DataRegion(e.before, is_dbf)[i] = 129
           /\ e.after # e.before
           /\ file_bytes = e.after
           /\ \E i \in 1..Len(file_bytes) : file_bytes[i] = 63

\* C33: the column names a frame gets when it is prepared for DBF are
\* pairwise distinct, letter case aside, and none is longer than 10
\* characters, whatever pairwise distinct names the source columns carry.
C33_NamesDistinct ==
    last.op \in {"_prepare_dataframe_for_dbf", "import_xml_to_dbf",
                 "create_dbf_from_dataframe"} =>
        /\ \A i \in 1..Len(last.new_columns) : Len(last.new_columns[i]) <= 10
        /\ \A i, n \in 1..Len(last.new_columns) :
               i # n => UpperStr(last.new_columns[i]) # UpperStr(last.new_columns[n])

\* C34: the match a find_next lands on satisfies the match predicate under
\* the find text and the two check boxes that find_next was called with,
\* and the match a replace_current replaces satisfies it under the find
\* text and the case box that replace_current was called with (for one of
\* the two partial-match settings).
C34_MatchesCurrent ==
    [][last'.op \in {"find_next", "replace_current"} /\ last'.done =>
          /\ \A f \in FindTexts, cs \in BOOLEAN, pm \in BOOLEAN :
                 find_next(f, cs, pm) =>
                     IsMatch(matches'[current_match_index' + 1].val, f, cs, pm)
          /\ \A f \in FindTexts, r \in ReplaceTexts, cs \in BOOLEAN :
                 replace_current(f, r, cs) =>
                     \E pm \in BOOLEAN :
                         IsMatch(matches[current_match_index + 1].val, f, cs, pm)
      ]_vars

\* C35: a replace_all that asks for confirmation (find text not blank, tab
\* writable, at least one match) and is answered No leaves the table, the
\* modified flag, the match list and the cursor as they were.
C35_DeclineIsCancel ==
    [][last'.op = "replace_all" /\ ~read_only =>
          \A f \in FindTexts \ {<<>>}, r \in ReplaceTexts, cs \in BOOLEAN,
             pm \in BOOLEAN :
              (/\ SearchData(display_df, f, cs, pm) # <<>>
               /\ replace_all(f, r, cs, pm, FALSE)) =>
                  /\ df' = df
                  /\ modified' = modified
                  /\ matches' = matches
                  /\ current_match_index' = current_match_index
      ]_vars

\* C36: after load_data has run (when the tab is opened, and again after
\* a conversion that went through) no query View is active, the rows drawn
\* are a page of the table just read from the file, and current_page is a
\* page of that table.
C36_ReloadShowsFreshTable ==
    last.op = "load_data" /\ last.done =>
        /\ ~filtered_df.some
        /\ df = ReadTable(disk)
        /\ data_tree = PageItems(df, current_page)
        /\ current_page <= TotalPages(Len(df)) - 1

\* C37: a converter call that returns True on a .dbf file leaves the
\* number of bytes after the header as it was, so the file keeps its
\* length, for each of the four code-page pairs.
C37_DataLengthKept ==
    [][(Converts /\ Call.ret /\ is_dbf /\ file_bytes # Missing) =>
           /\ Len(file_bytes') = Len(file_bytes)
           /\ Len(DataRegion(file_bytes', is_dbf))
                  = Len(DataRegion(file_bytes, is_dbf))
      ]_vars

\* C38: the first click on a heading after a query that went through or
\* after clear_filter sorts ascending, whichever column is clicked and
\* whatever was sorted before.
C38_FirstClickAscending ==
    [][((last.op = "execute_sql" /\ last.done) \/ last.op = "clear_filter") =>
           \A j \in ColIdx : on_header_click(j) => sort_ascending'
      ]_vars

====
